---------------------------- MODULE Spec2Model ----------------------------
(* Model of src/utils/ts_utils.py: the stationarity transformer            *)
(* (make_stationary and the inverse closures it returns), the forecast     *)
(* bias statistic (forecast_bias) and the metric adapter                   *)
(* (darts_metrics_adapter).                                                *)
(*                                                                         *)
(* Numbers.  A float is modelled by the exact rational it stands for, a    *)
(* pair <<n, d>> in lowest terms with d > 0; the non-finite floats are    *)
(* <<1, 0>> (inf), <<-1, 0>> (-inf) and <<0, 0>> (nan).  np.log of a       *)
(* positive rational n/d is the triple <<"ln", n, d>> and np.exp undoes    *)
(* it, which is what the two functions do up to rounding.                  *)
EXTENDS Integers, Sequences, FiniteSets, TLC

(***************************************************************************)
(* Bounds                                                                  *)
(***************************************************************************)
MaxLen == 2
MaxVal == 2
MaxBiasLen == 3
MaxRows == 2

(***************************************************************************)
(* Float arithmetic (float64, exact on the rationals)                      *)
(***************************************************************************)
Abs(n) == IF n < 0 THEN -n ELSE n

RECURSIVE GCD(_, _)
GCD(a, b) == IF b = 0 THEN a ELSE GCD(b, a % b)

\* the float n/d: lowest terms, positive denominator; d = 0 gives inf, -inf, nan
Norm(n, d) ==
    IF d = 0 THEN <<(IF n > 0 THEN 1 ELSE IF n < 0 THEN -1 ELSE 0), 0>>
    ELSE LET g == GCD(Abs(n), Abs(d))
             s == IF d < 0 THEN -1 ELSE 1
         IN  <<(s * n) \div g, (s * d) \div g>>

R(i) == <<i, 1>>
NaN == <<0, 0>>
IsNaN(f) == f = NaN
IsFinite(f) == f[2] # 0

FAdd(a, b) ==
    IF IsFinite(a) /\ IsFinite(b) THEN Norm(a[1] * b[2] + b[1] * a[2], a[2] * b[2])
    ELSE IF IsNaN(a) \/ IsNaN(b) THEN NaN
    ELSE IF ~IsFinite(a) /\ ~IsFinite(b) THEN (IF a = b THEN a ELSE NaN)
    ELSE IF IsFinite(a) THEN b ELSE a

FNeg(a) == <<-a[1], a[2]>>
FSub(a, b) == FAdd(a, FNeg(b))

FMul(a, b) ==
    IF IsNaN(a) \/ IsNaN(b) THEN NaN
    ELSE Norm(a[1] * b[1], a[2] * b[2])

\* a zero divisor is +0.0: the divisors of the program are sums and elements of
\* non-negative inputs, so -0.0 does not occur
FDiv(a, b) ==
    IF IsNaN(a) \/ IsNaN(b) THEN NaN
    ELSE IF ~IsFinite(a) /\ ~IsFinite(b) THEN NaN
    ELSE IF ~IsFinite(b) THEN R(0)
    ELSE IF b[1] = 0 THEN Norm(a[1], 0)
    ELSE IF b[1] < 0 THEN Norm(-(a[1] * b[2]), -(a[2] * b[1]))
    ELSE Norm(a[1] * b[2], a[2] * b[1])

\* np.log and np.exp on positive floats
NpLog(q) == <<"ln", q[1], q[2]>>
NpExp(l) == <<l[2], l[3]>>

\* python slices s[:-1] and s[1:]
ButLast(s) == IF Len(s) = 0 THEN <<>> ELSE SubSeq(s, 1, Len(s) - 1)
Rest(s) == IF Len(s) = 0 THEN <<>> ELSE SubSeq(s, 2, Len(s))

\* d[k] = v on a python dict
DictSet(d, k, v) == [kk \in (DOMAIN d) \cup {k} |-> IF kk = k THEN v ELSE d[kk]]

(***************************************************************************)
(* State                                                                   *)
(***************************************************************************)
VARIABLES
    heap,      \* the caller's numpy arrays, by reference
    dicts,     \* the option dicts: the caller's own and the function's default
    res,       \* the make_stationary result the caller holds: (stationary, inverse)
    inv,       \* the last application of the inverse closure the caller holds
    fb,        \* the last forecast_bias call
    ad         \* the last darts_metrics_adapter call

vars == <<heap, dicts, res, inv, fb, ad>>

ArrIds == {1, 2}
DictIds == {"caller", "default"}
Methods == {"detrend", "logdiff", "diff"}
Vals == 1..MaxVal

RECURSIVE SeqsUpTo(_, _)
SeqsUpTo(S, n) ==
    IF n = 0 THEN {<<>>}
    ELSE LET prev == SeqsUpTo(S, n - 1)
         IN  prev \cup {Append(s, v) : s \in {p \in prev : Len(p) = n - 1}, v \in S}

\* the option dicts a caller passes as detrend_kwargs
CallerDicts ==
    { <<>>,
      [k \in {"return_trend"} |-> "False"],
      [k \in {"return_trend"} |-> "True"],
      [k \in {"lo_frac"} |-> "0.6"] }

NoResult == [called |-> FALSE, x |-> 1, x_val |-> <<>>, method |-> "detrend",
             kw |-> "default", ret |-> [tag |-> "None", stationary |-> <<>>,
                                       inverse |-> [fn |-> "none", trend |-> <<>>, x |-> 1]]]
NoInverse == [applied |-> FALSE, x_seen |-> <<>>, out |-> <<>>]

(***************************************************************************)
(* make_stationary                                                         *)
(***************************************************************************)
\* the detrending routine: residual and trend, residual = x - trend
_detrend(x, kwargs, trend) ==
    LET residual == [i \in 1..Len(x) |-> FSub(R(x[i]), trend[i])]
    IN  IF "return_trend" \in DOMAIN kwargs /\ kwargs["return_trend"] = "True"
        THEN <<residual, trend>>
        ELSE <<residual>>

\* the trends the detrender may extract from a series of length n
Trends(n) == { [i \in 1..n |-> R(1)], [i \in 1..n |-> R(i)] }

\* np.log(x[:-1]/x[1:])
logdiff(x) ==
    [i \in 1..Len(ButLast(x)) |-> NpLog(FDiv(R(ButLast(x)[i]), R(Rest(x)[i])))]

\* the two closures: partial(inverse_transform, trend=trend) and
\* partial(inverse_transform, x=x), the latter holding the caller's array
inverse_transform(closure, st, h) ==
    IF closure.fn = "detrend"
    THEN [i \in 1..Len(st) |-> FAdd(st[i], closure.trend[i])]
    ELSE LET _x == [i \in 1..Len(st) |-> NpExp(st[i])]
             x == h[closure.x]
         IN  [i \in 1..Len(st) |-> FMul(_x[i], R(Rest(x)[i]))]

\* the dict detrend_kwargs is after the call, and the value returned
make_stationary_kwargs(method, kwargs) ==
    IF method = "detrend" THEN DictSet(kwargs, "return_trend", "True") ELSE kwargs

make_stationary_ret(a, h, method, kwargs, trend) ==
    IF method = "detrend"
    THEN LET dt == _detrend(h[a], make_stationary_kwargs(method, kwargs), trend)
         IN  [tag |-> "tuple", stationary |-> dt[1],
              inverse |-> [fn |-> "detrend", trend |-> dt[2], x |-> a]]
    ELSE IF method = "logdiff"
    THEN [tag |-> "tuple", stationary |-> logdiff(h[a]),
          inverse |-> [fn |-> "logdiff", trend |-> <<>>, x |-> a]]
    ELSE NoResult.ret

\* make_stationary(heap[a], method, dicts[kw]); with bind the caller assigns the
\* value returned to the variables it holds, without it the value is dropped
make_stationary(bind, a, method, kw) ==
    \E trend \in Trends(Len(heap[a])) :
        /\ dicts' = [dicts EXCEPT ![kw] = make_stationary_kwargs(method, dicts[kw])]
        /\ IF bind
           THEN /\ res' = [called |-> TRUE, x |-> a, x_val |-> heap[a],
                           method |-> method, kw |-> kw,
                           ret |-> make_stationary_ret(a, heap, method, dicts[kw], trend)]
                /\ inv' = NoInverse
           ELSE UNCHANGED <<res, inv>>
        /\ UNCHANGED <<heap, fb, ad>>

\* the caller applies the inverse it holds to the stationary series it got with it
ApplyInverse ==
    /\ res.ret.tag = "tuple"
    /\ inv' = [applied |-> TRUE, x_seen |-> heap[res.x],
               out |-> inverse_transform(res.ret.inverse, res.ret.stationary, heap)]
    /\ UNCHANGED <<heap, dicts, res, fb, ad>>

\* the caller writes one element of one of its arrays in place: x[i] = v
CallerWrite(a, i, v) ==
    /\ i \in 1..Len(heap[a])
    /\ heap[a][i] # v
    /\ heap' = [heap EXCEPT ![a][i] = v]
    /\ UNCHANGED <<dicts, res, inv, fb, ad>>

(***************************************************************************)
(* forecast_bias                                                           *)
(***************************************************************************)
\* the element values of the arrays and series given to forecast_bias
BiasVals == {NaN, R(0), R(1), R(2)}

ndarray(v) == [kind |-> "ndarray", values |-> v]
\* a univariate TimeSeries; the series of one call start at the same time step
TimeSeries(v) == [kind |-> "TimeSeries", values |-> v]

BiasInputs ==
    {ndarray(v) : v \in SeqsUpTo(BiasVals, MaxBiasLen)}
        \cup {TimeSeries(v) : v \in SeqsUpTo(BiasVals, MaxBiasLen) \ {<<>>}}

Min(a, b) == IF a <= b THEN a ELSE b

Raise(e) == [status |-> "raise", error |-> e, value |-> NaN,
             y_true |-> <<>>, y_pred |-> <<>>]

\* the values of two TimeSeries over their common time steps (intersect), or
\* over all of them when the time steps are the same
_get_values_or_raise(series_a, series_b, intersect) ==
    LET n == Min(Len(series_a.values), Len(series_b.values))
    IN  IF intersect
        THEN [ok |-> TRUE, a |-> SubSeq(series_a.values, 1, n),
                           b |-> SubSeq(series_b.values, 1, n)]
        ELSE IF Len(series_a.values) = Len(series_b.values)
        THEN [ok |-> TRUE, a |-> series_a.values, b |-> series_b.values]
        ELSE [ok |-> FALSE, a |-> <<>>, b |-> <<>>]

\* np.delete(arr, mask)
RECURSIVE np_delete(_, _)
np_delete(arr, mask) ==
    IF Len(arr) = 0 THEN <<>>
    ELSE IF mask[1] THEN np_delete(Tail(arr), Tail(mask))
    ELSE <<arr[1]>> \o np_delete(Tail(arr), Tail(mask))

\* the two arrays without the positions where either of them is NaN
_remove_nan_union(array_a, array_b) ==
    LET isnan_mask == [i \in 1..Len(array_a) |-> IsNaN(array_a[i]) \/ IsNaN(array_b[i])]
    IN  <<np_delete(array_a, isnan_mask), np_delete(array_b, isnan_mask)>>

RECURSIVE np_sum(_)
np_sum(arr) == IF Len(arr) = 0 THEN R(0) ELSE FAdd(arr[1], np_sum(Tail(arr)))

\* a slip in the ratio: the predicted sum as the baseline
bias_ratio_over_predicted(y_true_sum, y_pred_sum) ==
    FMul(FDiv(FSub(y_true_sum, y_pred_sum), y_pred_sum), R(100))

\* ((y_true_sum - y_pred_sum) / y_true_sum) * 100.
bias_ratio(y_true_sum, y_pred_sum) ==
    FMul(FDiv(FSub(y_true_sum, y_pred_sum), y_true_sum), R(100))

forecast_bias(actual_series, pred_series, intersect) ==
    IF actual_series.kind # pred_series.kind THEN Raise("AssertionError")
    ELSE
      LET got == IF actual_series.kind = "ndarray"
                 THEN [ok |-> TRUE, a |-> actual_series.values, b |-> pred_series.values]
                 ELSE _get_values_or_raise(actual_series, pred_series, intersect)
      IN  IF ~got.ok \/ Len(got.a) # Len(got.b) THEN Raise("ValueError")
          ELSE
            LET yy == _remove_nan_union(got.a, got.b)
                y_true_sum == np_sum(yy[1])
                y_pred_sum == np_sum(yy[2])
            IN  [status |-> "return", error |-> "",
                 value |-> bias_ratio(y_true_sum, y_pred_sum),
                 y_true |-> yy[1], y_pred |-> yy[2]]

NoCall == [called |-> FALSE]

\* the call the program is about to make returns
CallForecastBias ==
    /\ ~fb.called
    /\ fb' = [fb EXCEPT !.called = TRUE,
                        !.ret = forecast_bias(fb.actual_series, fb.pred_series,
                                              fb.intersect)]
    /\ UNCHANGED <<heap, dicts, res, inv, ad>>

InitBias ==
    /\ heap = [a \in ArrIds |-> <<1>>]
    /\ dicts = [d \in DictIds |-> <<>>]
    /\ res = NoResult
    /\ inv = NoInverse
    /\ fb \in [called : {FALSE}, actual_series : BiasInputs, pred_series : BiasInputs,
                intersect : BOOLEAN, ret : {Raise("")}]
    /\ ad = NoCall

NextBias == CallForecastBias

SpecBias == InitBias /\ [][NextBias]_vars

(***************************************************************************)
(* darts_metrics_adapter                                                   *)
(***************************************************************************)
\* the errors of the adapter, by the statement that raises them
TypeMismatch == "AssertionError: should be of same type"
UnsupportedShape == "ValueError: Dataframes not supported in the adapter"
MissingDatetimeIndex == "ValueError: MASE needs pandas Series with datetime index"
NormalizationError == "ValueError"
AttributeError == "AttributeError"

Metrics == {"mae", "mse", "mase"}
Seasonalities == {1, 7}
Seeds == {1, 2}

NoIndex == [dtype |-> "none", labels |-> <<>>]
PdIndex(dt, rows) == [dtype |-> IF dt THEN "datetime64" ELSE "int64",
                      labels |-> [i \in 1..rows |-> i - 1]]
Column(seed, c, rows) == [i \in 1..rows |-> 10 * (c - 1) + seed * i]

\* the containers a caller passes; values holds the columns, one for the
\* one-dimensional containers
NoneObj == [kind |-> "NoneType", values |-> <<>>, index |-> NoIndex]
np_ndarray(seed, rows) ==
    [kind |-> "ndarray", values |-> <<Column(seed, 1, rows)>>, index |-> NoIndex]
pd_Series(seed, rows, dt) ==
    [kind |-> "Series", values |-> <<Column(seed, 1, rows)>>, index |-> PdIndex(dt, rows)]
pd_DataFrame(seed, rows, cols, dt) ==
    [kind |-> "DataFrame", values |-> [c \in 1..cols |-> Column(seed, c, rows)],
     index |-> PdIndex(dt, rows)]

AdapterInputs ==
    {np_ndarray(sd, r) : sd \in Seeds, r \in 1..MaxRows}
        \cup {pd_Series(sd, r, dt) : sd \in Seeds, r \in 1..MaxRows, dt \in BOOLEAN}
        \cup UNION {{pd_DataFrame(sd, r, c, dt) : sd \in Seeds, r \in 1..MaxRows,
                                                  dt \in BOOLEAN} : c \in 1..2}

\* DataFrame.squeeze(): one element gives a scalar, one column or one row a
\* Series, anything else the frame itself
squeeze(df) ==
    LET cols == Len(df.values)
        rows == Len(df.values[1])
    IN  IF cols = 1 /\ rows = 1
        THEN [kind |-> "scalar", values |-> df.values, index |-> NoIndex]
        ELSE IF cols = 1
        THEN [kind |-> "Series", values |-> df.values, index |-> df.index]
        ELSE IF rows = 1
        THEN [kind |-> "Series", values |-> <<[c \in 1..cols |-> df.values[c][1]]>>,
              index |-> [dtype |-> "object", labels |-> [c \in 1..cols |-> c - 1]]]
        ELSE df

\* the index-type predicate
is_datetime_dtypes(index) == index.dtype = "datetime64"

\* the canonical series constructors
from_values(values) ==
    [form |-> "positional", values |-> values,
     index |-> [dtype |-> "int64", labels |-> [i \in 1..Len(values[1]) |-> i - 1]]]
from_series(pd_series) ==
    [form |-> "timeindexed", values |-> pd_series.values, index |-> pd_series.index]
NoneSeries == [form |-> "None", values |-> <<>>, index |-> NoIndex]
Omitted == [form |-> "omitted", values |-> <<>>, index |-> NoIndex]

AdRaise(e) == [status |-> "raise", error |-> e, calls |-> <<>>]
AdReturn(call) == [status |-> "return", error |-> "", calls |-> <<call>>]

\* the attributes .index and .values exist on Series and DataFrame only
HasIndex(o) == o.kind \in {"Series", "DataFrame"}

\* a slip in the assertions: insample is not compared
same_type_without_insample(actual_series, pred_series, insample) ==
    actual_series.kind = pred_series.kind

\* the two assertions on type(...) pass
same_type(actual_series, pred_series, insample) ==
    /\ actual_series.kind = pred_series.kind
    /\ insample.kind # "NoneType" => actual_series.kind = insample.kind

darts_metrics_adapter(metric_func, actual_series, pred_series, insample, m) ==
    IF ~same_type(actual_series, pred_series, insample) THEN AdRaise(TypeMismatch)
    ELSE
      LET is_nd_array == actual_series.kind = "ndarray"
          is_pd_dataframe == actual_series.kind = "DataFrame"
      IN  IF ~(is_pd_dataframe /\ Len(actual_series.values) = 1)
          THEN AdRaise(UnsupportedShape)
          ELSE
            LET actual == squeeze(actual_series)
                pred == squeeze(pred_series)
                ins == IF insample.kind # "NoneType" THEN squeeze(insample) ELSE insample
                is_pd_series == TRUE
                \* "and" evaluates its right operand only when the left one is true
                idx_ap == IF ~HasIndex(actual) THEN "error"
                          ELSE IF ~is_datetime_dtypes(actual.index) THEN "false"
                          ELSE IF ~HasIndex(pred) THEN "error"
                          ELSE IF is_datetime_dtypes(pred.index) THEN "true" ELSE "false"
                idx == IF insample.kind = "NoneType" \/ idx_ap # "true" THEN idx_ap
                       ELSE IF ~HasIndex(ins) THEN "error"
                       ELSE IF is_datetime_dtypes(ins.index) THEN "true" ELSE "false"
                is_datetime_index == idx = "true"
                forward(a, p, i) ==
                    IF metric_func = "mase"
                    THEN AdReturn([fn |-> metric_func, actual_series |-> a,
                                   pred_series |-> p, insample |-> i, m |-> m])
                    ELSE AdReturn([fn |-> metric_func, actual_series |-> a,
                                   pred_series |-> p, insample |-> Omitted, m |-> 0])
            IN  IF idx = "error" THEN AdRaise(AttributeError)
                ELSE IF metric_func = "mase" /\ ~is_datetime_index
                THEN AdRaise(MissingDatetimeIndex)
                ELSE IF is_nd_array \/ (is_pd_series /\ ~is_datetime_index)
                THEN IF ~HasIndex(pred) \/ (insample.kind # "NoneType" /\ ~HasIndex(ins))
                     THEN AdRaise(AttributeError)
                     ELSE forward(from_values(actual.values), from_values(pred.values),
                                  IF insample.kind # "NoneType"
                                  THEN from_values(ins.values) ELSE NoneSeries)
                ELSE IF is_pd_series /\ is_datetime_index
                THEN forward(from_series(actual), from_series(pred),
                             IF insample.kind # "NoneType"
                             THEN from_series(ins) ELSE NoneSeries)
                ELSE AdRaise(NormalizationError)

\* the call the program is about to make returns or raises
CallAdapter ==
    /\ ~ad.called
    /\ ad' = [ad EXCEPT !.called = TRUE,
                        !.ret = darts_metrics_adapter(ad.metric_func, ad.actual_series,
                                                      ad.pred_series, ad.insample, ad.m)]
    /\ UNCHANGED <<heap, dicts, res, inv, fb>>

InitAdapter ==
    /\ heap = [a \in ArrIds |-> <<1>>]
    /\ dicts = [d \in DictIds |-> <<>>]
    /\ res = NoResult
    /\ inv = NoInverse
    /\ fb = NoCall
    /\ ad \in [called : {FALSE}, metric_func : Metrics, actual_series : AdapterInputs,
                pred_series : AdapterInputs, insample : AdapterInputs \cup {NoneObj},
                m : Seasonalities, ret : {AdRaise("")}]

NextAdapter == CallAdapter

SpecAdapter == InitAdapter /\ [][NextAdapter]_vars

Init ==
    /\ heap \in [ArrIds -> SeqsUpTo(Vals, MaxLen) \ {<<>>}]
    /\ dicts \in {[d \in DictIds |-> IF d = "default" THEN <<>> ELSE c] : c \in CallerDicts}
    /\ res = NoResult
    /\ inv = NoInverse
    /\ fb = NoCall
    /\ ad = NoCall

Next ==
    \/ \E bind \in BOOLEAN, a \in ArrIds, method \in Methods, kw \in DictIds :
          make_stationary(bind, a, method, kw)
    \/ ApplyInverse
    \/ \E a \in ArrIds, i \in 1..MaxLen, v \in Vals : CallerWrite(a, i, v)

Spec == Init /\ [][Next]_vars



(***************************************************************************)
(* Properties                                                              *)
(***************************************************************************)
AsFloats(x) == [i \in 1..Len(x) |-> R(x[i])]

\* C1: applying the inverse returned by make_stationary(x, method), method
\* detrend or logdiff, to the stationary series of the same call gives x
\* back: same length, equal element by element.
C1_InverseRestoresInput ==
    (inv.applied /\ Len(res.x_val) >= 2 /\ inv.x_seen = res.x_val)
        => inv.out = AsFloats(res.x_val)

\* C6: make_stationary with a method other than detrend and logdiff raises
\* an error and returns nothing.
C6_UnknownMethodRaises ==
    (res.called /\ res.method \notin {"detrend", "logdiff"}) => res.ret.tag = "raise"

\* C9: a call of make_stationary leaves the array x and the option dict the
\* caller passed with the contents they had before the call.
C9_ArgumentsUntouched ==
    [][\A bind \in BOOLEAN, a \in ArrIds, method \in Methods :
          make_stationary(bind, a, method, "caller")
              => (heap' = heap /\ dicts'["caller"] = dicts["caller"])]_vars

\* C10: once make_stationary(x, "logdiff") has returned, nothing the caller
\* does later (writing into x, calling make_stationary again on another
\* input) changes what the inverse closure it holds returns.
C10_ClosureOwnsItsData ==
    [][(res.called /\ res.method = "logdiff" /\ res' = res)
          => inverse_transform(res.ret.inverse, res.ret.stationary, heap')
               = inverse_transform(res.ret.inverse, res.ret.stationary, heap)]_vars

\* the values forecast_bias compares: the arrays, or the series over their
\* common time steps
Compared(call) ==
    LET a == call.actual_series.values
        p == call.pred_series.values
        n == IF call.actual_series.kind = "TimeSeries" /\ call.intersect
             THEN Min(Len(a), Len(p)) ELSE Len(a)
    IN  [a |-> SubSeq(a, 1, n), p |-> SubSeq(p, 1, Min(n, Len(p)))]

\* the inputs forecast_bias accepts: same kind, same length once aligned
BiasInputsValid(call) ==
    /\ call.actual_series.kind = call.pred_series.kind
    /\ \/ call.actual_series.kind = "TimeSeries" /\ call.intersect
       \/ Len(call.actual_series.values) = Len(call.pred_series.values)

\* the positions where neither value is NaN
KeptPositions(a, p) == {i \in 1..Len(a) : ~IsNaN(a[i]) /\ ~IsNaN(p[i])}

RECURSIVE KeptOf(_, _, _)
KeptOf(s, I, n) ==
    IF n = 0 THEN <<>> ELSE KeptOf(s, I, n - 1) \o (IF n \in I THEN <<s[n]>> ELSE <<>>)

RECURSIVE SumAt(_, _)
SumAt(s, I) ==
    IF I = {} THEN R(0)
    ELSE LET i == CHOOSE j \in I : TRUE IN FAdd(s[i], SumAt(s, I \ {i}))

\* C7: forecast_bias drops the positions where actual or predicted is NaN
\* from both sequences together, so the retained sequences are the values at
\* the same positions and of equal length, and returns
\* 100 * (sum(actual) - sum(predicted)) / sum(actual) over the retained pairs
\* (stated where that sum of actual values is not zero).
C7_BiasOverRetainedPairs ==
    (fb.called /\ BiasInputsValid(fb)) =>
        LET c == Compared(fb)
            I == KeptPositions(c.a, c.p)
            sa == SumAt(c.a, I)
            sp == SumAt(c.p, I)
        IN  /\ fb.ret.status = "return"
            /\ fb.ret.y_true = KeptOf(c.a, I, Len(c.a))
            /\ fb.ret.y_pred = KeptOf(c.p, I, Len(c.p))
            /\ Len(fb.ret.y_true) = Len(fb.ret.y_pred)
            /\ sa # R(0) => fb.ret.value = FDiv(FMul(R(100), FSub(sa, sp)), sa)

\* actual = [2, NaN, 2], predicted = [1, 2, NaN]: only the pair (2, 1) is kept
C7_Witness ==
    /\ fb.called
    /\ fb.actual_series = ndarray(<<R(2), NaN, R(2)>>)
    /\ fb.pred_series = ndarray(<<R(1), R(2), NaN>>)
    /\ fb.ret.y_true = <<R(2)>>
    /\ fb.ret.y_pred = <<R(1)>>
    /\ fb.ret.value = R(50)

\* C8: forecast_bias raises ValueError when the actual values left after the
\* NaN removal sum to zero (stated where at least one pair is left).
C8_ZeroBaselineRaises ==
    (fb.called /\ BiasInputsValid(fb)
        /\ LET c == Compared(fb)
           IN  /\ KeptPositions(c.a, c.p) # {}
               /\ SumAt(c.a, KeptPositions(c.a, c.p)) = R(0))
        => (fb.ret.status = "raise" /\ fb.ret.error = "ValueError")

\* the inputs of the adapter call that were supplied
Supplied(call) ==
    {call.actual_series, call.pred_series} \cup
        (IF call.insample.kind = "NoneType" THEN {} ELSE {call.insample})

SameKinds(call) == \A o \in Supplied(call) : o.kind = call.actual_series.kind
AllDatetime(call) == \A o \in Supplied(call) : o.index.dtype = "datetime64"

\* the canonical form the specification gives a one-dimensional input
Canonical(o, call) ==
    IF o.kind = "NoneType" THEN NoneSeries
    ELSE IF o.kind # "ndarray" /\ AllDatetime(call)
    THEN [form |-> "timeindexed", values |-> o.values, index |-> o.index]
    ELSE [form |-> "positional", values |-> o.values,
          index |-> [dtype |-> "int64", labels |-> [i \in 1..Len(o.values[1]) |-> i - 1]]]

\* C2: arrays and series that pass validation are coerced, arrays and series
\* without a datetime index to the positional form and series with one to the
\* time-indexed form, and metric_fn is invoked exactly once on the coerced
\* values.
C2_ArraysAndSeriesReachMetric ==
    (ad.called /\ SameKinds(ad) /\ ad.actual_series.kind \in {"ndarray", "Series"}
        /\ (ad.metric_func = "mase" => AllDatetime(ad)))
        => /\ ad.ret.status = "return"
           /\ Len(ad.ret.calls) = 1
           /\ ad.ret.calls[1].fn = ad.metric_func
           /\ ad.ret.calls[1].actual_series = Canonical(ad.actual_series, ad)
           /\ ad.ret.calls[1].pred_series = Canonical(ad.pred_series, ad)

\* C3: when actual and predicted differ in kind, or insample is supplied and
\* differs in kind from actual, the adapter fails with TypeMismatch, whatever
\* the shapes, the indexes and the metric, and metric_fn is not invoked.
C3_TypeMismatchFirst ==
    (ad.called /\ ~SameKinds(ad))
        => (ad.ret.status = "raise" /\ ad.ret.error = TypeMismatch /\ ad.ret.calls = <<>>)

\* a two-column frame against an array under mase: the shape and the index
\* checks would fail too
C3_Witness ==
    /\ ad.called
    /\ ad.metric_func = "mase"
    /\ ad.actual_series.kind = "DataFrame" /\ Len(ad.actual_series.values) = 2
    /\ ad.pred_series.kind = "DataFrame"
    /\ ad.insample.kind = "ndarray"
    /\ ad.ret.error = TypeMismatch

\* no supplied input is a frame of two or more columns
NoWideFrame(call) == \A o \in Supplied(call) : Len(o.values) = 1

\* C4: under mase, inputs of which one lacks a datetime index (arrays
\* included) fail with MissingDatetimeIndex and metric_fn is not invoked;
\* inputs that all carry one succeed and metric_fn receives insample and m.
\* Under any other metric insample and m are left out of the forwarded call.
C4_IndexRequirement ==
    (ad.called /\ SameKinds(ad) /\ NoWideFrame(ad)) =>
        /\ (ad.metric_func = "mase" /\ ~AllDatetime(ad))
              => ad.ret = AdRaise(MissingDatetimeIndex)
        /\ (ad.metric_func = "mase" /\ AllDatetime(ad))
              => /\ ad.ret.status = "return"
                 /\ ad.ret.calls[1].insample = Canonical(ad.insample, ad)
                 /\ ad.ret.calls[1].m = ad.m
        /\ (ad.metric_func # "mase" /\ ad.ret.status = "return")
              => (ad.ret.calls[1].insample = Omitted /\ ad.ret.calls[1].m = 0)

\* the indexed series a one-column frame stands for
AsSeries(o) ==
    IF o.kind = "DataFrame" THEN [kind |-> "Series", values |-> o.values, index |-> o.index]
    ELSE o

\* every supplied input has two rows or more
SeveralRows(call) == \A o \in Supplied(call) : Len(o.values[1]) >= 2

\* C5: a pair of one-column frames has the outcome of the pair of indexed
\* series with the same values and index; a frame of two or more columns is
\* rejected with UnsupportedShape (stated for frames of two rows or more).
C5_SingleColumnAsSeries ==
    (ad.called /\ SameKinds(ad) /\ ad.actual_series.kind = "DataFrame"
        /\ SeveralRows(ad)) =>
        IF NoWideFrame(ad)
        THEN ad.ret = darts_metrics_adapter(ad.metric_func, AsSeries(ad.actual_series),
                                            AsSeries(ad.pred_series),
                                            AsSeries(ad.insample), ad.m)
        ELSE ad.ret = AdRaise(UnsupportedShape)

=============================================================================
